---- MODULE Spec2Model ----
(***************************************************************************)
(* gpu-memory-allocator (src/src/main.cpp): the processes the program      *)
(* creates, each with its position in main / glfw_init /                   *)
(* allocate_gpu_memory / run_oscillating_allocations, and the system calls *)
(* (fork, execvp, sleep, kill, exit) each has made.                        *)
(*                                                                         *)
(* Numbers.  `unsigned` is 32 bits wide; size_t and the representation of  *)
(* std::chrono::milliseconds are 64 bits wide.  A byte count or a          *)
(* millisecond count is written [hi, lo], meaning hi * 2^20 + lo with      *)
(* 0 <= lo < 2^20, so that values up to and beyond 2^32 can be written     *)
(* exactly.  A value fits `unsigned` iff hi < 2^12.                        *)
(***************************************************************************)
EXTENDS Integers, Sequences, FiniteSets

\* ---------------------------------------------------------------- bounds
MaxProcs == 3        \* process ids the model hands out (fork fails beyond)
MaxCycles == 2       \* iterations of the oscillator loop one process runs

\* ------------------------------------------------------------- constants
kChildBootWaitExtraMs == 300     \* main.cpp:16
kMinMib == 12                    \* main.cpp:109, 113, 117
MiB == 1048576                   \* 1024 * 1024, main.cpp:114
UIntHi == 4096                   \* 2^32 / 2^20: `unsigned` values have hi < UIntHi
kDefaultOscillateMib == 0        \* main.cpp:96
kDefaultOscillateTimeMs == 500   \* main.cpp:97

Pids == 1..MaxProcs
Root == 1
NoPid == 0
ForkError == -1
NoArg == <<-1>>                  \* the flag is absent from the command line
NonDigit == 10                   \* any character that is not a decimal digit
ParseError == -1
NoStatus == -1

\* ------------------------------------------------------------- arithmetic
Wide(hi, lo) == [hi |-> hi + (lo \div MiB), lo |-> lo % MiB]

\* conversion of a wide value to `unsigned`: reduction modulo 2^32
ToUnsigned(w) == [hi |-> w.hi % UIntHi, lo |-> w.lo]

\* the mathematical sum and product
WidePlus(a, b) == Wide(a.hi + b.hi, a.lo + b.lo)
WideTimesMiB(n) == Wide(n, 0)

UIntMax == [hi |-> UIntHi - 1, lo |-> MiB - 1]

\* main.cpp:78  oscillate_time_ms + kChildBootWaitExtraMs, both `unsigned`
BootWaitMs(oscillate_time_ms) ==
    ToUnsigned(WidePlus(oscillate_time_ms, Wide(0, kChildBootWaitExtraMs)))

\* main.cpp:114  1024 * 1024 * mib_size: int * int * unsigned is `unsigned`,
\* converted to size_t afterwards
GpuMemSizeBytes(mib_size) == ToUnsigned(WideTimesMiB(mib_size))

\* --------------------------------------------------------------- strings
RECURSIVE to_string(_)
\* std::to_string(unsigned): the decimal digits, most significant first
to_string(n) == IF n < 10 THEN <<n>> ELSE Append(to_string(n \div 10), n % 10)

RECURSIVE ParseDigits(_, _)
ParseDigits(text, acc) ==
    IF text = <<>> THEN acc
    ELSE ParseDigits(Tail(text), acc * 10 + Head(text))

\* cxxopts::value<unsigned>: the value of a decimal string, or a parse error
ParseUnsigned(text) ==
    IF text = <<>> \/ \E i \in 1..Len(text) : text[i] \notin 0..9
    THEN ParseError
    ELSE ParseDigits(text, 0)

\* main.cpp:73-75  std::to_string(oscillate_mib).c_str() is a pointer into a
\* temporary that is destroyed at the end of the declaration of child_args;
\* execvp reads it afterwards.  What it reads is the digits if the storage is
\* untouched, and otherwise whatever the storage holds then.
DanglingCStr(s) == {s, <<NonDigit>>, SubSeq(s, 1, 1)}

\* ---------------------------------------------------------------- inputs
\* the text given to -m on the first process's command line
MibArgs == {NoArg, <<NonDigit>>} \cup {to_string(n) : n \in {5, 12, 13, 20, 4108}}
\* the values of -o and -t on the first process's command line
OscillateMibArgs == {kDefaultOscillateMib, 12, 13}
OscillateTimeMsArgs == {Wide(0, 100), UIntMax}

\* ----------------------------------------------------------------- state
VARIABLES proc

vars == <<proc>>

NoEvents == <<>>
ForkEvent(ret) == [op |-> "fork", pid |-> ret, ms |-> Wide(0, 0)]
SleepEvent(ms) == [op |-> "sleep", pid |-> NoPid, ms |-> ms]
KillEvent(pid) == [op |-> "kill", pid |-> pid, ms |-> Wide(0, 0)]

\* what the operating system records of a process that has just been created
\* and the program's variables before main has assigned them
Unused ==
    [pc |-> "unused", parent |-> NoPid, execd |-> FALSE,
     argv |-> [path |-> "argv0", help |-> FALSE, m |-> NoArg,
               o |-> kDefaultOscillateMib, t |-> Wide(0, kDefaultOscillateTimeMs)],
     g_program_path |-> "", mib_size |-> 0, gpu_mem_size_bytes |-> Wide(0, 0),
     oscillate_mib |-> 0, oscillate_time_ms |-> Wide(0, 0), child_pid |-> NoPid,
     glfw_inits |-> 0, context |-> FALSE, allocs |-> <<>>, finished |-> 0,
     spawned |-> 0, sigterm |-> FALSE, exit_status |-> NoStatus,
     cycle |-> NoEvents, cycles |-> 0]

\* a process image that starts main with the given command line
Started(parent, argv) ==
    [Unused EXCEPT !.pc = "main", !.parent = parent, !.execd = TRUE, !.argv = argv]

Alive(p) == proc[p].pc \notin {"unused", "exited", "killed", "aborted"}

\* exit(v) and `return v` from main: the status a waiter sees is v & 0377
Exit(p, v) ==
    proc' = [proc EXCEPT ![p].pc = "exited", ![p].exit_status = v % 256]

\* an exception that nothing catches: std::terminate, abort
Abort(p) == proc' = [proc EXCEPT ![p].pc = "aborted"]

Goto(p, label) == proc' = [proc EXCEPT ![p].pc = label]

Init ==
    \E m \in MibArgs, o \in OscillateMibArgs, t \in OscillateTimeMsArgs, h \in BOOLEAN :
        proc = [p \in Pids |->
                  IF p = Root
                  THEN Started(NoPid, [path |-> "argv0", help |-> h, m |-> m, o |-> o, t |-> t])
                  ELSE Unused]

\* ------------------------------------------------------------------ main
\* main.cpp:87-106  options.parse throws on a value that is no number; --help
MainParse(p) ==
    /\ proc[p].pc = "main"
    /\ IF proc[p].argv.m # NoArg /\ ParseUnsigned(proc[p].argv.m) = ParseError
       THEN Abort(p)
       ELSE IF proc[p].argv.help
       THEN Exit(p, 0)
       ELSE proc' = [proc EXCEPT ![p].pc = "read_mib",
                                 ![p].g_program_path = proc[p].argv.path]

\* main.cpp:108-114
MainMib(p) ==
    /\ proc[p].pc = "read_mib"
    /\ IF proc[p].argv.m = NoArg
       THEN Abort(p)
       ELSE LET mib_size == ParseUnsigned(proc[p].argv.m) IN
            IF mib_size <= kMinMib
            THEN Exit(p, -1)
            ELSE proc' = [proc EXCEPT
                     ![p].pc = "read_oscillate_mib",
                     ![p].mib_size = mib_size - kMinMib,
                     ![p].gpu_mem_size_bytes = GpuMemSizeBytes(mib_size - kMinMib)]

\* MainOscillateMib with the floor tested by < in place of <=
MainOscillateMib_FloorOffByOne(p) ==
    /\ proc[p].pc = "read_oscillate_mib"
    /\ LET oscillate_mib == proc[p].argv.o IN
       IF oscillate_mib # 0 /\ oscillate_mib < kMinMib
       THEN Exit(p, -1)
       ELSE proc' = [proc EXCEPT ![p].pc = "glfw_init",
                                 ![p].oscillate_mib = oscillate_mib]

\* main.cpp:116-121
MainOscillateMib(p) ==
    /\ proc[p].pc = "read_oscillate_mib"
    /\ LET oscillate_mib == proc[p].argv.o IN
       IF oscillate_mib # 0 /\ oscillate_mib <= kMinMib
       THEN Exit(p, -1)
       ELSE proc' = [proc EXCEPT ![p].pc = "glfw_init",
                                 ![p].oscillate_mib = oscillate_mib]

\* main.cpp:123, 24-35  glfwCreateWindow returns a window or NULL
GlfwCreateWindow(p) ==
    /\ proc[p].pc = "glfw_init"
    /\ \E window \in BOOLEAN :
        IF window
        THEN proc' = [proc EXCEPT ![p].pc = "glad_load", ![p].glfw_inits = @ + 1]
        ELSE proc' = [proc EXCEPT ![p].pc = "exited", ![p].glfw_inits = @ + 1,
                                  ![p].exit_status = 1 % 256]

\* GladLoadGLLoader without the exit(1) of its failure branch
GladLoadGLLoader_NoExit(p) ==
    /\ proc[p].pc = "glad_load"
    /\ \E loaded \in BOOLEAN :
        proc' = [proc EXCEPT ![p].pc = "allocate", ![p].context = loaded]

\* main.cpp:36-43  gladLoadGLLoader succeeds or not
GladLoadGLLoader(p) ==
    /\ proc[p].pc = "glad_load"
    /\ \E loaded \in BOOLEAN :
        IF loaded
        THEN proc' = [proc EXCEPT ![p].pc = "allocate", ![p].context = TRUE]
        ELSE Exit(p, 1)

\* AllocateGpuMemory returning without the glFinish that follows it
AllocateGpuMemory_NoFinish(p) ==
    /\ proc[p].pc = "allocate"
    /\ proc' = [proc EXCEPT ![p].pc = "allocated",
                            ![p].allocs = Append(@, proc[p].gpu_mem_size_bytes)]

\* main.cpp:124, 45-52  glBufferData(GL_PIXEL_UNPACK_BUFFER, num_bytes, ...)
AllocateGpuMemory(p) ==
    /\ proc[p].pc = "allocate"
    /\ proc' = [proc EXCEPT ![p].pc = "gl_finish",
                            ![p].allocs = Append(@, proc[p].gpu_mem_size_bytes)]

\* main.cpp:53  glFinish returns
GlFinish(p) ==
    /\ proc[p].pc = "gl_finish"
    /\ proc' = [proc EXCEPT ![p].pc = "allocated", ![p].finished = @ + 1]

\* main.cpp:126-131
MainBranch(p) ==
    /\ proc[p].pc = "allocated"
    /\ IF proc[p].oscillate_mib = 0
       THEN Goto(p, "sleep")
       ELSE proc' = [proc EXCEPT ![p].pc = "fork",
                                 ![p].oscillate_time_ms = proc[p].argv.t]

\* main.cpp:127  sleep(numeric_limits<unsigned>::max()) returns when that many
\* seconds have passed
SleepReturns(p) ==
    /\ proc[p].pc = "sleep"
    /\ Goto(p, "glfw_terminate")

\* main.cpp:133-134
MainReturn(p) ==
    /\ proc[p].pc = "glfw_terminate"
    /\ Exit(p, 0)

\* ------------------------------------------- run_oscillating_allocations
FreePids == {c \in Pids : proc[c].pc = "unused"}

\* the process fork creates: a copy of the caller's memory in which fork has
\* returned 0; what the operating system counts for it starts afresh
ForkCopy(p) ==
    [proc[p] EXCEPT !.pc = "execvp", !.parent = p, !.execd = FALSE,
                    !.child_pid = 0, !.glfw_inits = 0, !.context = FALSE,
                    !.allocs = <<>>, !.finished = 0, !.spawned = 0,
                    !.sigterm = FALSE, !.cycle = <<ForkEvent(0)>>, !.cycles = 0]

\* main.cpp:69-72  fork returns the new process id in the caller, or -1 when
\* no process could be created
Fork(p) ==
    /\ proc[p].pc = "fork"
    /\ proc[p].cycles < MaxCycles
    /\ \/ \E c \in FreePids :
            /\ \A d \in FreePids : c <= d
            /\ proc' = [proc EXCEPT ![p].pc = "boot_wait",
                                    ![p].child_pid = c,
                                    ![p].spawned = @ + 1,
                                    ![p].cycle = <<ForkEvent(c)>>,
                                    ![c] = ForkCopy(p)]
       \/ proc' = [proc EXCEPT ![p].pc = "boot_wait",
                               ![p].child_pid = ForkError,
                               ![p].cycle = <<ForkEvent(ForkError)>>]

\* main.cpp:72-75  in the process where fork returned 0.  execvp replaces the
\* program and main starts again on child_args, or it fails and returns, and
\* control leaves the if statement
Execvp(p) ==
    /\ proc[p].pc = "execvp"
    /\ \/ \E arg \in DanglingCStr(to_string(proc[p].oscillate_mib)) :
            proc' = [proc EXCEPT ![p] =
                [Started(proc[p].parent,
                         [Unused.argv EXCEPT !.path = proc[p].g_program_path,
                                             !.m = arg])
                 EXCEPT !.sigterm = proc[p].sigterm]]
       \/ Goto(p, "idle_wait")

\* main.cpp:76-78  in the process where fork returned something else
BootWait(p) ==
    /\ proc[p].pc = "boot_wait"
    /\ proc' = [proc EXCEPT
           ![p].pc = "kill",
           ![p].cycle = Append(@, SleepEvent(BootWaitMs(proc[p].oscillate_time_ms)))]

\* kill(pid, SIGTERM): the process pid, or for pid = -1 every process the
\* caller may signal but itself
KillTargets(p, pid) ==
    IF pid = ForkError THEN Pids \ {p} ELSE {pid} \cap Pids

\* SIGTERM is never handled or blocked (main.cpp installs no handler), so its
\* default action ends the target, which runs no further statement
Sigterm(q) == [proc[q] EXCEPT !.pc = "killed", !.sigterm = TRUE]

\* main.cpp:79-80
Kill(p) ==
    /\ proc[p].pc = "kill"
    /\ proc' = [q \in Pids |->
                  IF q = p
                  THEN [proc[p] EXCEPT !.pc = "idle_wait",
                                       !.cycle = Append(@, KillEvent(proc[p].child_pid))]
                  ELSE IF q \in KillTargets(p, proc[p].child_pid) /\ Alive(q)
                  THEN Sigterm(q)
                  ELSE proc[q]]

\* main.cpp:82-83  the sleep that ends an iteration
IdleWait(p) ==
    /\ proc[p].pc = "idle_wait"
    /\ proc' = [proc EXCEPT
           ![p].pc = "fork",
           ![p].cycles = @ + 1,
           ![p].cycle = Append(@, SleepEvent(proc[p].oscillate_time_ms))]

Next ==
    \E p \in Pids :
        \/ MainParse(p)
        \/ MainMib(p)
        \/ MainOscillateMib(p)
        \/ GlfwCreateWindow(p)
        \/ GladLoadGLLoader(p)
        \/ AllocateGpuMemory(p)
        \/ GlFinish(p)
        \/ MainBranch(p)
        \/ SleepReturns(p)
        \/ MainReturn(p)
        \/ Fork(p)
        \/ Execvp(p)
        \/ BootWait(p)
        \/ Kill(p)
        \/ IdleWait(p)

Spec == Init /\ [][Next]_vars

\* ------------------------------------------------------------ properties
Created == {p \in Pids : proc[p].pc # "unused"}

\* the processes that run main: the first one and every one execvp started
RunsMain == {p \in Created : proc[p].execd}

\* the base size the command line of p asks for
HasRequestedMib(p) ==
    proc[p].argv.m # NoArg /\ ParseUnsigned(proc[p].argv.m) # ParseError
RequestedMib(p) == ParseUnsigned(proc[p].argv.m)

InValidation == {"main", "read_mib", "read_oscillate_mib"}
InOscillator == {"fork", "execvp", "boot_wait", "kill", "idle_wait"}
AfterAllocation == {"allocated", "sleep", "glfw_terminate"} \cup InOscillator

RejectedSizes(p) ==
    /\ ~proc[p].argv.help
    /\ HasRequestedMib(p)
    /\ \/ RequestedMib(p) <= 12
       \/ proc[p].argv.o # 0 /\ proc[p].argv.o <= 12

\* C1: a run of main without --help whose base size is <= 12, or whose
\* oscillation size is non-zero and <= 12, never leaves validation except by
\* exiting with a nonzero status (or by being killed from outside), and has
\* called neither glfw_init nor allocate_gpu_memory nor spawned a child.
C1_RejectedBeforeAnyWork ==
    \A p \in RunsMain :
        RejectedSizes(p) =>
            /\ proc[p].pc \in InValidation \cup {"exited", "killed"}
            /\ proc[p].pc = "exited" => proc[p].exit_status \notin {0, NoStatus}
            /\ proc[p].glfw_inits = 0
            /\ proc[p].allocs = <<>>
            /\ proc[p].spawned = 0
            /\ \A c \in Created : proc[c].parent # p

\* a run with a valid base size and an oscillation size of 12 has exited
C1_Witness ==
    \E p \in RunsMain :
        /\ RejectedSizes(p)
        /\ RequestedMib(p) > 12
        /\ proc[p].argv.o = 12
        /\ proc[p].pc = "exited"
        /\ proc[p].exit_status = 255

\* C2: the byte count of the base call of allocate_gpu_memory is
\* (requested_mib - 12) * 1024 * 1024 as a mathematical integer, for every
\* requested_mib > 12.
C2_ExactByteCount ==
    \A p \in RunsMain :
        (HasRequestedMib(p) /\ RequestedMib(p) > 12 /\ proc[p].allocs # <<>>) =>
            proc[p].allocs[1] = WideTimesMiB(RequestedMib(p) - 12)

\* C3: a run with a valid base size and oscillate-mib = 0 whose graphics
\* initialisation succeeded issues exactly one allocation, spawns nothing, and
\* after the allocation never reaches glfwTerminate or returns from main.
C3_BlocksForever ==
    \A p \in RunsMain :
        (HasRequestedMib(p) /\ RequestedMib(p) > 12 /\ ~proc[p].argv.help
            /\ proc[p].argv.o = 0 /\ proc[p].context) =>
            /\ Len(proc[p].allocs) <= 1
            /\ proc[p].spawned = 0
            /\ proc[p].pc \in {"allocate", "gl_finish", "allocated", "sleep", "killed"}
            /\ proc[p].pc \in {"allocated", "sleep"} => Len(proc[p].allocs) = 1

\* C4: an iteration of the oscillator's loop that has spawned its child is, in
\* order and once each: the fork, a wait of oscillate_time_ms + 300 ms, SIGTERM
\* to that child, a wait of oscillate_time_ms ms; and the oscillating process
\* never leaves the loop by itself.
C4_CycleShape ==
    \A p \in RunsMain :
        /\ (proc[p].pc = "fork" /\ proc[p].cycles > 0 /\ proc[p].cycle[1].pid \in Pids) =>
              LET c == proc[p].cycle[1].pid
                  t == proc[p].oscillate_time_ms
              IN  proc[p].cycle =
                     << ForkEvent(c),
                        SleepEvent(WidePlus(t, Wide(0, 300))),
                        KillEvent(c),
                        SleepEvent(t) >>
        /\ proc[p].spawned > 0 => proc[p].pc \in InOscillator \cup {"killed"}

\* C5: a process execvp started is started on the parent's argv[0] with the
\* arguments -m decimal(oscillate_mib) and nothing else, so it has
\* oscillate-mib = 0, passes validation, allocates (oscillate_mib - 12) MiB
\* once and spawns nothing.
C5_ChildCommandLine ==
    \A c \in RunsMain :
        proc[c].parent # NoPid =>
            LET oscillate_mib == proc[proc[c].parent].oscillate_mib IN
            /\ proc[c].argv = [path |-> proc[proc[c].parent].argv.path,
                               help |-> FALSE,
                               m |-> to_string(oscillate_mib),
                               o |-> 0,
                               t |-> Wide(0, 500)]
            /\ proc[c].pc # "aborted"
            /\ proc[c].pc = "exited" => proc[c].glfw_inits = 1
            /\ proc[c].allocs \in {<<>>, <<WideTimesMiB(oscillate_mib - 12)>>}
            /\ proc[c].spawned = 0

\* the run reached the end of glfw_init's failure branches: glfw_init was
\* entered, no context came of it, and the process is not still inside it
GraphicsFailed(p) ==
    /\ proc[p].glfw_inits > 0
    /\ ~proc[p].context
    /\ proc[p].pc \notin {"glad_load", "killed"}

\* C6: when glfwCreateWindow or gladLoadGLLoader fails, the process has exited
\* with status 1, has entered glfw_init once only, and has issued no
\* allocation and spawned no child.
C6_GraphicsFailureIsFatal ==
    \A p \in RunsMain :
        GraphicsFailed(p) =>
            /\ proc[p].pc = "exited"
            /\ proc[p].exit_status = 1
            /\ proc[p].glfw_inits = 1
            /\ proc[p].allocs = <<>>
            /\ proc[p].spawned = 0
            /\ \A c \in Created : proc[c].parent # p

\* a run with an oscillation size has exited on a failed loader
C6_Witness ==
    \E p \in RunsMain :
        /\ GraphicsFailed(p)
        /\ proc[p].oscillate_mib > 12
        /\ proc[p].pc = "exited"

\* C7: in a run of main the context comes first, then the one base allocation
\* and its glFinish, then the sleep or the oscillator: a process that sleeps,
\* oscillates or has a child has a context and exactly one allocation, which
\* has finished, and no process ever issues a second one.
C7_InitAllocateThenRun ==
    \A p \in RunsMain :
        /\ Len(proc[p].allocs) <= 1
        /\ proc[p].finished <= Len(proc[p].allocs)
        /\ proc[p].allocs # <<>> => proc[p].context /\ proc[p].glfw_inits = 1
        /\ (\/ proc[p].pc \in AfterAllocation
            \/ proc[p].spawned > 0
            \/ \E c \in Created : proc[c].parent = p) =>
              /\ proc[p].context
              /\ Len(proc[p].allocs) = 1
              /\ proc[p].finished = 1

\* the oscillating process has spawned in two iterations
C7_Witness ==
    \E p \in RunsMain :
        /\ proc[p].spawned >= 2
        /\ proc[p].cycles >= 1
        /\ \E c \in Created : proc[c].parent = p /\ proc[c].pc = "gl_finish"

\* C8: an iteration in which fork returned -1 is the same as any other: the
\* wait of oscillate_time_ms + 300 ms, SIGTERM to the value fork returned, the
\* wait of oscillate_time_ms ms, and then the next iteration.
C8_ForkFailureCycle ==
    \A p \in Created :
        (proc[p].cycle # <<>> /\ proc[p].cycle[1] = ForkEvent(ForkError)) =>
            LET t == proc[p].oscillate_time_ms
                whole == << ForkEvent(ForkError),
                            SleepEvent(WidePlus(t, Wide(0, 300))),
                            KillEvent(ForkError),
                            SleepEvent(t) >>
            IN  /\ proc[p].pc \in {"boot_wait", "kill", "idle_wait", "fork", "killed"}
                /\ proc[p].pc = "boot_wait" => proc[p].cycle = SubSeq(whole, 1, 1)
                /\ proc[p].pc = "kill" => proc[p].cycle = SubSeq(whole, 1, 2)
                /\ proc[p].pc = "idle_wait" => proc[p].cycle = SubSeq(whole, 1, 3)
                /\ proc[p].pc = "fork" => proc[p].cycle = whole

\* C9: of the processes that descend from the oscillating process, at most one
\* is alive and has not been sent SIGTERM.
C9_OneChildAtATime ==
    Cardinality({c \in Created : proc[c].parent # NoPid /\ Alive(c) /\ ~proc[c].sigterm}) <= 1

\* C10: a process that fork created never goes on in the loop: it is replaced
\* by execvp, and whether execvp succeeds or fails it reaches neither the
\* loop's sleep nor a fork.
C10_OnlyTheParentLoops ==
    \A p \in Created :
        ~proc[p].execd => proc[p].pc \in {"execvp", "killed"}

====
